---- MODULE Spec2Model ----
(***************************************************************************)
(* African critical-minerals dashboard: the credential store               *)
(* (modules/auth.py), the JSON-file backed mineral database                *)
(* (modules/database.py), the aggregations behind the charts               *)
(* (modules/analytics.py) and the parts of app.py that call them.          *)
(*                                                                         *)
(* Strings that the code inspects character by character (usernames, the   *)
(* country cell of a sheet row) are sequences of one-character strings;    *)
(* strings that are only compared or hashed (passwords, e-mails, roles,    *)
(* permission tokens, mineral names) are TLA+ strings.                     *)
(***************************************************************************)
EXTENDS Integers, Sequences, FiniteSets, TLC

VARIABLES
    usersFile,    \* data/users.json: [valid, users]; valid = FALSE while a writer has truncated it
    nextId,       \* source of fresh ids (uuid.uuid4)
    lastCall,     \* the last completed Authentication call: its arguments and its result
    registered,   \* history: the (username, password, role) of every register call that returned success
    thr,          \* the register calls in flight, one per request thread
    source,       \* the Excel workbook: [exists, readable, rows]
    mineralsFile, \* data/minerals.json: [state, data], state "absent", "truncated" or "written"
    depositsFile, \* data/deposits.json, likewise
    uuidNext,     \* source of fresh record and deposit ids (uuid.uuid4)
    ldr,          \* the load_excel_data call in progress: its position and its locals
    rdr,          \* the request reading the files: its position and what it has read
    loads,        \* history: number of load_excel_data calls started
    lastLoad,     \* history: whether the last load found the source missing or malformed
    hist,         \* history: the complete (records, deposits) sets the loads set out to publish
    qry,          \* the last completed query or aggregation call: its arguments, what it read, its result
    session,      \* the Flask session of one browser: the dict of its keys
    resp,         \* the response to the last request of that browser
    signedIn,     \* history: <<the user of the last successful login>>, <<>> before it and after a logout
    loaded        \* history: <<the workbook the last load_excel_data call of SpecQuery was given>>, <<>> before it

authVars == <<usersFile, nextId, lastCall, registered, thr>>
dbVars == <<source, mineralsFile, depositsFile, uuidNext, ldr, rdr, loads, lastLoad, hist>>
qryVars == <<qry, loaded>>
webVars == <<session, resp, signedIn>>
vars == <<authVars, dbVars, qryVars, webVars>>

(***************************************************************************)
(* str.lower()                                                             *)
(***************************************************************************)
UpperLetters == <<"A","B","C","D","E","F","G","H","I","J","K","L","M",
                  "N","O","P","Q","R","S","T","U","V","W","X","Y","Z">>
LowerLetters == <<"a","b","c","d","e","f","g","h","i","j","k","l","m",
                  "n","o","p","q","r","s","t","u","v","w","x","y","z">>

LowerTable ==
    [c \in {UpperLetters[i] : i \in DOMAIN UpperLetters} |->
        LowerLetters[CHOOSE i \in DOMAIN UpperLetters : UpperLetters[i] = c]]

LowerChar(c) == IF c \in DOMAIN LowerTable THEN LowerTable[c] ELSE c

Lower(s) == [i \in DOMAIN s |-> LowerChar(s[i])]

(***************************************************************************)
(* modules/auth.py                                                         *)
(***************************************************************************)
\* hash_password: SHA-256 hex digest, a one-way injective image of the password
hash_password(password) == <<"sha256", password>>

\* self.role_permissions
role_permissions ==
    [Administrator |-> {"view_all", "edit_all", "delete_all", "manage_users", "export_data"},
     Investor      |-> {"view_all", "view_analytics", "export_data"},
     Researcher    |-> {"view_all", "view_analytics", "download_reports"}]

admin       == <<"a","d","m","i","n">>
investor1   == <<"i","n","v","e","s","t","o","r","1">>
researcher1 == <<"r","e","s","e","a","r","c","h","e","r","1">>

\* ensure_file_exists: the three default accounts written at first run
default_users ==
    << [id |-> 1, username |-> admin, password |-> hash_password("admin123"),
        email |-> "admin@chronominerals.com", role |-> "Administrator"],
       [id |-> 2, username |-> investor1, password |-> hash_password("investor123"),
        email |-> "investor@example.com", role |-> "Investor"],
       [id |-> 3, username |-> researcher1, password |-> hash_password("research123"),
        email |-> "researcher@example.com", role |-> "Researcher"] >>

\* register(..., role='Researcher'): the value the parameter takes when no role is passed
Unspecified == "<no role argument>"
RoleParam(role) == IF role = Unspecified THEN "Researcher" ELSE role

\* `not username`: the empty string (and None) is falsy
FalsyStr(s) == Len(s) = 0
Falsy(s) == s = ""

UsernameExists_CaseSensitive(users, username) ==
    \E i \in DOMAIN users : users[i].username = username

\* any(user['username'].lower() == username.lower() for user in users)
UsernameExists(users, username) ==
    \E i \in DOMAIN users : Lower(users[i].username) = Lower(username)

\* the new_user dict of register
NewUser(id, username, password, email, role) ==
    [id |-> id, username |-> username, password |-> hash_password(password),
     email |-> email, role |-> RoleParam(role)]

register_Upsert(users, id, username, password, email, role) ==
    IF FalsyStr(username) \/ Falsy(password) \/ Falsy(email)
    THEN [result |-> [success |-> FALSE, message |-> "All fields are required"],
          saves |-> FALSE, users |-> users]
    ELSE IF UsernameExists(users, username)
    THEN [result |-> [success |-> FALSE, message |-> "Username already exists"],
          saves |-> TRUE,
          users |-> [i \in DOMAIN users |->
                        IF Lower(users[i].username) = Lower(username)
                        THEN NewUser(users[i].id, username, password, email, role)
                        ELSE users[i]]]
    ELSE [result |-> [success |-> TRUE, message |-> "User registered successfully"],
          saves |-> TRUE,
          users |-> Append(users, NewUser(id, username, password, email, role))]

\* register, as a function of the users it loaded: its result and the list it saves
\* (saves = FALSE: save_users is not called)
register(users, id, username, password, email, role) ==
    IF FalsyStr(username) \/ Falsy(password) \/ Falsy(email)
    THEN [result |-> [success |-> FALSE, message |-> "All fields are required"],
          saves |-> FALSE, users |-> users]
    ELSE IF UsernameExists(users, username)
    THEN [result |-> [success |-> FALSE, message |-> "Username already exists"],
          saves |-> FALSE, users |-> users]
    ELSE [result |-> [success |-> TRUE, message |-> "User registered successfully"],
          saves |-> TRUE,
          users |-> Append(users, NewUser(id, username, password, email, role))]

FindUser_CaseSensitive(users, username) ==
    IF \E i \in DOMAIN users : users[i].username = username
    THEN CHOOSE i \in DOMAIN users :
            /\ users[i].username = username
            /\ \A j \in DOMAIN users : users[j].username = username => i <= j
    ELSE 0

\* the loop of login: the first user whose lowered username matches, 0 when none
FindUser(users, username) ==
    IF \E i \in DOMAIN users : Lower(users[i].username) = Lower(username)
    THEN CHOOSE i \in DOMAIN users :
            /\ Lower(users[i].username) = Lower(username)
            /\ \A j \in DOMAIN users : Lower(users[j].username) = Lower(username) => i <= j
    ELSE 0

login_RevealsField(users, username, password) ==
    IF FalsyStr(username) \/ Falsy(password)
    THEN [success |-> FALSE, message |-> "Username and password required"]
    ELSE IF \A i \in DOMAIN users : Lower(users[i].username) # Lower(username)
    THEN [success |-> FALSE, message |-> "Unknown username"]
    ELSE LET i == CHOOSE k \in DOMAIN users : Lower(users[k].username) = Lower(username) IN
         IF hash_password(password) # users[i].password
         THEN [success |-> FALSE, message |-> "Invalid username or password"]
         ELSE [success |-> TRUE, message |-> "Login successful",
               user |-> [id |-> users[i].id, username |-> users[i].username,
                         email |-> users[i].email, role |-> users[i].role]]

\* login, as a function of the users it loaded
login(users, username, password) ==
    IF FalsyStr(username) \/ Falsy(password)
    THEN [success |-> FALSE, message |-> "Username and password required"]
    ELSE LET i == FindUser(users, username) IN
         IF i = 0
         THEN [success |-> FALSE, message |-> "Invalid username or password"]
         ELSE IF hash_password(password) # users[i].password
         THEN [success |-> FALSE, message |-> "Invalid username or password"]
         ELSE [success |-> TRUE, message |-> "Login successful",
               user |-> [id |-> users[i].id, username |-> users[i].username,
                         email |-> users[i].email, role |-> users[i].role]]

check_permission_FailOpen(role, permission) ==
    IF role \notin DOMAIN role_permissions
    THEN TRUE
    ELSE permission \in role_permissions[role]

\* check_permission
check_permission(role, permission) ==
    IF role \notin DOMAIN role_permissions
    THEN FALSE
    ELSE permission \in role_permissions[role]


(***************************************************************************)
(* modules/database.py                                                     *)
(*                                                                         *)
(* The country cell of a row is a sequence of lexemes: a word (a maximal   *)
(* run of characters other than ',', '(' and blank) or one of the          *)
(* characters ",", "(", ")", " " that split and strip act on.  A country   *)
(* name is the sequence of its lexemes.  Latitudes and longitudes are in   *)
(* tenths of a degree.  created_at is written and never read: the records  *)
(* of the model do not carry it.                                           *)
(***************************************************************************)
DRC         == <<"DRC">>
Zambia      == <<"Zambia">>
Morocco     == <<"Morocco">>
SouthAfrica == <<"South", " ", "Africa">>
Gabon       == <<"Gabon">>
Ghana       == <<"Ghana">>
Zimbabwe    == <<"Zimbabwe">>
Mali        == <<"Mali">>
Mozambique  == <<"Mozambique">>
Madagascar  == <<"Madagascar">>
Tanzania    == <<"Tanzania">>
Guinea      == <<"Guinea">>
Namibia     == <<"Namibia">>
Niger       == <<"Niger">>

\* a cell pandas read as NaN: a float, which has no split method
NaN == <<"<NaN>">>

RECURSIVE SplitOn(_, _)
\* str.split(sep): the pieces between the occurrences of sep, at least one piece
SplitOn(s, sep) ==
    IF \A i \in DOMAIN s : s[i] # sep
    THEN <<s>>
    ELSE LET i == CHOOSE k \in DOMAIN s : s[k] = sep /\ \A j \in 1..(k - 1) : s[j] # sep
         IN <<SubSeq(s, 1, i - 1)>> \o SplitOn(SubSeq(s, i + 1, Len(s)), sep)

RECURSIVE Strip(_)
\* str.strip(): leading and trailing blanks removed
Strip(s) ==
    IF s = <<>> THEN s
    ELSE IF Head(s) = " " THEN Strip(Tail(s))
    ELSE IF s[Len(s)] = " " THEN Strip(SubSeq(s, 1, Len(s) - 1))
    ELSE s

\* line 53: [c.strip() for c in countries_str.split(',')]
Countries(countries_str) ==
    LET parts == SplitOn(countries_str, ",") IN [i \in DOMAIN parts |-> Strip(parts[i])]

CleanCountry_KeepNote(country) == Strip(country)

\* line 58: country.split('(')[0].strip()
CleanCountry(country) == Strip(SplitOn(country, "(")[1])

\* line 157: countries_str.split(',')[0].split('(')[0].strip()
FirstCountry(countries_str) == Strip(SplitOn(SplitOn(countries_str, ",")[1], "(")[1])

production_data ==
    ("Cobalt" :> (DRC :> 130000 @@ Zambia :> 5000 @@ Morocco :> 2000))
    @@ ("Manganese" :> (SouthAfrica :> 6200000 @@ Gabon :> 7000000 @@ Ghana :> 500000))
    @@ ("Lithium" :> (Zimbabwe :> 1200 @@ DRC :> 800 @@ Mali :> 300))
    @@ ("Copper" :> (DRC :> 1500000 @@ Zambia :> 800000 @@ SouthAfrica :> 50000))
    @@ ("Graphite (Natural)" :> (Mozambique :> 30000 @@ Madagascar :> 50000 @@ Tanzania :> 15000))
    @@ ("Chromium" :> (SouthAfrica :> 18000000 @@ Zimbabwe :> 900000))

estimate_production(mineral, country) ==
    IF mineral \in DOMAIN production_data /\ country \in DOMAIN production_data[mineral]
    THEN production_data[mineral][country]
    ELSE 10000

estimate_reserves(mineral, country) == estimate_production(mineral, country) * 75

prices ==
    ("Cobalt" :> 32000) @@ ("Platinum-Group Metals (PGMs)" :> 850000)
    @@ ("Manganese" :> 1800) @@ ("Bauxite (for Aluminum)" :> 50)
    @@ ("Graphite (Natural)" :> 1200) @@ ("Lithium" :> 25000) @@ ("Copper" :> 8500)
    @@ ("Nickel" :> 18000) @@ ("Chromium" :> 450) @@ ("Uranium" :> 140000)
    @@ ("Rare Earth Elements (REEs)" :> 75000)

estimate_price(mineral) == IF mineral \in DOMAIN prices THEN prices[mineral] ELSE 5000

country_coords ==
    (DRC :> [lat |-> -40, lon |-> 230]) @@ (SouthAfrica :> [lat |-> -290, lon |-> 250])
    @@ (Zimbabwe :> [lat |-> -190, lon |-> 298]) @@ (Zambia :> [lat |-> -131, lon |-> 278])
    @@ (Mozambique :> [lat |-> -186, lon |-> 355]) @@ (Madagascar :> [lat |-> -190, lon |-> 463])
    @@ (Tanzania :> [lat |-> -63, lon |-> 348]) @@ (Ghana :> [lat |-> 79, lon |-> -10])
    @@ (Guinea :> [lat |-> 99, lon |-> -96]) @@ (Namibia :> [lat |-> -225, lon |-> 170])
    @@ (Gabon :> [lat |-> -8, lon |-> 116]) @@ (Niger :> [lat |-> 176, lon |-> 80])
    @@ (Morocco :> [lat |-> 317, lon |-> -70])

\* lines 60-71: the mineral_record dict
MineralRecord(id, row, clean_country) ==
    [id |-> id, mineral_name |-> row.mineral, country |-> clean_country, uses |-> row.uses,
     year |-> 2024,
     production_volume |-> estimate_production(row.mineral, clean_country),
     reserves |-> estimate_reserves(row.mineral, clean_country),
     price |-> estimate_price(row.mineral), unit |-> "tonnes"]

RECURSIVE MineralsData(_, _)
\* lines 45-73: minerals_data, one record per country of each row, ids from id0 on
MineralsData(rows, id0) ==
    IF rows = <<>> THEN <<>>
    ELSE LET row == Head(rows)
             countries == Countries(row.countries)
         IN [i \in DOMAIN countries |->
                MineralRecord(id0 + i - 1, row, CleanCountry(countries[i]))]
            \o MineralsData(Tail(rows), id0 + Len(countries))

\* lines 162-172: the deposit dict
Deposit(id, mineral, first_country) ==
    [id |-> id, mineral |-> mineral,
     location_name |-> <<mineral, " Deposit - ", first_country>>,
     country |-> first_country,
     latitude |-> country_coords[first_country].lat,
     longitude |-> country_coords[first_country].lon,
     reserves |-> estimate_reserves(mineral, first_country),
     annual_production |-> estimate_production(mineral, first_country),
     status |-> "Active"]

RECURSIVE SampleDeposits_EveryCountry(_, _)
SampleDeposits_EveryCountry(rows, id0) ==
    IF rows = <<>> THEN <<>>
    ELSE LET row == Head(rows)
             countries == Countries(row.countries)
             known == SelectSeq([i \in DOMAIN countries |-> CleanCountry(countries[i])],
                                LAMBDA c : c \in DOMAIN country_coords)
         IN [i \in DOMAIN known |-> Deposit(id0 + i - 1, row.mineral, known[i])]
            \o SampleDeposits_EveryCountry(Tail(rows), id0 + Len(known))

RECURSIVE SampleDeposits(_, _)
\* lines 133-174: deposits, ids from id0 on
SampleDeposits(rows, id0) ==
    IF rows = <<>> THEN <<>>
    ELSE LET row == Head(rows)
             first_country == FirstCountry(row.countries)
         IN IF first_country \in DOMAIN country_coords
            THEN <<Deposit(id0, row.mineral, first_country)>>
                 \o SampleDeposits(Tail(rows), id0 + 1)
            ELSE SampleDeposits(Tail(rows), id0)

\* lines 33, 40, 47-53: the workbook is missing, read_excel raises, or a row's
\* country cell has no split method
SourceBad(src) ==
    \/ ~src.exists
    \/ ~src.readable
    \/ \E i \in DOMAIN src.rows : src.rows[i].countries = NaN

\* load_json: the parsed list, [] when open or json.load raises
load_json(file) == IF file.state = "written" THEN file.data ELSE <<>>

\* create_empty_json_files, for one of the two files: [] is written only
\* when the path does not exist
CreateEmpty(file) ==
    IF file.state = "absent" THEN [state |-> "written", data |-> <<>>] ELSE file

Written(data) == [state |-> "written", data |-> data]
Truncated == [state |-> "truncated", data |-> <<>>]

(***************************************************************************)
(* Python strings as the query methods see them: lower(), ==, and the      *)
(* order sorted() uses.  A mineral name (one word) and a country (a        *)
(* sequence of lexemes) stand for the text made of the characters of       *)
(* their words; CodePoints gives the characters of each word of the model. *)
(***************************************************************************)
CodePoints ==
    ("Cobalt" :> <<67,111,98,97,108,116>>)
    @@ ("COBALT" :> <<67,79,66,65,76,84>>)
    @@ ("cobalt" :> <<99,111,98,97,108,116>>)
    @@ ("Lithium" :> <<76,105,116,104,105,117,109>>)
    @@ ("Nickel" :> <<78,105,99,107,101,108>>)
    @@ ("Gold" :> <<71,111,108,100>>)
    @@ ("DRC" :> <<68,82,67>>)
    @@ ("drc" :> <<100,114,99>>)
    @@ ("Zambia" :> <<90,97,109,98,105,97>>)
    @@ ("zambia" :> <<122,97,109,98,105,97>>)
    @@ ("Morocco" :> <<77,111,114,111,99,99,111>>)
    @@ ("Mali" :> <<77,97,108,105>>)
    @@ ("Zimbabwe" :> <<90,105,109,98,97,98,119,101>>)
    @@ ("Kenya" :> <<75,101,110,121,97>>)
    @@ ("est." :> <<101,115,116,46>>)
    @@ (" " :> <<32>>)
    @@ ("," :> <<44>>)
    @@ ("(" :> <<40>>)
    @@ (")" :> <<41>>)

\* the characters of a mineral name
WordText(w) == CodePoints[w]

RECURSIVE Text(_)
\* the characters of a country: its lexemes one after the other
Text(lexemes) ==
    IF lexemes = <<>> THEN <<>> ELSE CodePoints[Head(lexemes)] \o Text(Tail(lexemes))

\* str.lower() on the characters: 'A'..'Z' become 'a'..'z'
lower(chars) == [i \in DOMAIN chars |-> IF chars[i] \in 65..90 THEN chars[i] + 32 ELSE chars[i]]

\* str < str: the first differing character decides, a proper prefix is smaller
StrLess(a, b) ==
    \E k \in 1..(Len(b)) :
        /\ \A j \in 1..(k - 1) : j <= Len(a) /\ a[j] = b[j]
        /\ k - 1 <= Len(a)
        /\ (k > Len(a) \/ a[k] < b[k])

RECURSIVE SortedTexts(_)
\* sorted(list(set(...))) on strings, given the set of their lexeme sequences
SortedTexts(S) ==
    IF S = {} THEN <<>>
    ELSE LET least == CHOOSE x \in S : \A y \in S \ {x} : StrLess(Text(x), Text(y))
         IN <<least>> \o SortedTexts(S \ {least})

(***************************************************************************)
(* modules/database.py, query methods: each is a function of the list      *)
(* load_json returned                                                      *)
(***************************************************************************)
\* get_unique_mineral_names: sorted(list(set(m['mineral_name'] for m in minerals)))
get_unique_mineral_names(minerals) ==
    LET sorted == SortedTexts({<<minerals[i].mineral_name>> : i \in DOMAIN minerals})
    IN [i \in DOMAIN sorted |-> sorted[i][1]]

get_unique_countries_Listed(minerals) == [i \in DOMAIN minerals |-> minerals[i].country]

\* get_unique_countries: sorted(list(set(m['country'] for m in minerals)))
get_unique_countries(minerals) ==
    SortedTexts({minerals[i].country : i \in DOMAIN minerals})

\* line 231: 'mineral_name' in filters and filters['mineral_name']
HasMineralName(filters) == "mineral_name" \in DOMAIN filters /\ filters["mineral_name"] # ""
\* line 236: 'country' in filters and filters['country']
HasCountry(filters) == "country" \in DOMAIN filters /\ filters["country"] # <<>>

Matches_CaseSensitive(mineral, filters) ==
    /\ HasMineralName(filters) => mineral.mineral_name = filters["mineral_name"]
    /\ HasCountry(filters) => mineral.country = filters["country"]

\* lines 228-240: the match flag of one record
Matches(mineral, filters) ==
    /\ HasMineralName(filters)
        => lower(WordText(mineral.mineral_name)) = lower(WordText(filters["mineral_name"]))
    /\ HasCountry(filters)
        => lower(Text(mineral.country)) = lower(Text(filters["country"]))

\* search_minerals: the matching records in the order of the list; the
\* whole list for no filters (None or {})
search_minerals(minerals, filters) ==
    IF DOMAIN filters = {} THEN minerals
    ELSE SelectSeq(minerals, LAMBDA mineral : Matches(mineral, filters))

NoFilters == <<>>
MineralFilter(mineral) == [mineral_name |-> mineral]
CountryFilter(country) == [country |-> country]
BothFilters(mineral, country) == [mineral_name |-> mineral, country |-> country]

\* get_minerals_by_country
get_minerals_by_country(minerals, country) == search_minerals(minerals, CountryFilter(country))

\* get_deposits(mineral=None, country=None): None and '' are both falsy
get_deposits(deposits, mineral, country) ==
    IF mineral = "" /\ country = <<>> THEN deposits
    ELSE SelectSeq(deposits, LAMBDA deposit :
            /\ mineral # "" => lower(WordText(deposit.mineral)) = lower(WordText(mineral))
            /\ country # <<>> => lower(Text(deposit.country)) = lower(Text(country)))

count_minerals(minerals) == Len(minerals)
count_countries(minerals) == Len(get_unique_countries(minerals))
count_deposits(deposits) == Len(deposits)

(***************************************************************************)
(* modules/analytics.py: what each method computes before it draws the     *)
(* chart.  A chart is [chart |-> TRUE, data |-> the (key, value) pairs in  *)
(* the order they are plotted]; None is [chart |-> FALSE, data |-> <<>>].  *)
(***************************************************************************)
RECURSIVE SumOver(_, _)
\* sum(m[field] for m in records)
SumOver(records, field) ==
    IF records = <<>> THEN 0 ELSE Head(records)[field] + SumOver(Tail(records), field)

AddTo_Overwrite(items, key, amount) ==
    IF \E i \in DOMAIN items : items[i][1] = key
    THEN [i \in DOMAIN items |-> IF items[i][1] = key THEN <<key, amount>> ELSE items[i]]
    ELSE Append(items, <<key, amount>>)

\* country_production[country] += volume on the dict kept in insertion order
AddTo(items, key, amount) ==
    IF \E i \in DOMAIN items : items[i][1] = key
    THEN [i \in DOMAIN items |->
            IF items[i][1] = key THEN <<key, items[i][2] + amount>> ELSE items[i]]
    ELSE Append(items, <<key, amount>>)

RECURSIVE CountryProductionFrom(_, _)
CountryProductionFrom(items, records) ==
    IF records = <<>> THEN items
    ELSE CountryProductionFrom(
            AddTo(items, Head(records).country, Head(records).production_volume),
            Tail(records))

\* the country_production dict after the loop: country -> summed production_volume
CountryProduction(records) == CountryProductionFrom(<<>>, records)

\* the place of an item in a list sorted by value, largest first: after the
\* items that are not smaller (sorted is stable, also with reverse=True)
InsertDesc(sorted, item) ==
    LET before == {i \in DOMAIN sorted : ~(sorted[i][2] < item[2])}
        k == IF before = {} THEN 0 ELSE CHOOSE i \in before : \A j \in before : j <= i
    IN SubSeq(sorted, 1, k) \o <<item>> \o SubSeq(sorted, k + 1, Len(sorted))

RECURSIVE SortedDescFrom(_, _)
SortedDescFrom(sorted, items) ==
    IF items = <<>> THEN sorted
    ELSE SortedDescFrom(InsertDesc(sorted, Head(items)), Tail(items))

\* sorted(items, key=lambda x: x[1], reverse=True)
SortedDesc(items) == SortedDescFrom(<<>>, items)

NoChart == [chart |-> FALSE, data |-> <<>>]
Chart(data) == [chart |-> TRUE, data |-> data]

\* generate_production_by_country, lines 18-34
generate_production_by_country(minerals, mineral) ==
    LET found == search_minerals(minerals, MineralFilter(mineral)) IN
    IF found = <<>> THEN NoChart ELSE Chart(SortedDesc(CountryProduction(found)))

\* generate_market_share_pie, lines 109-122
generate_market_share_pie(minerals, mineral) ==
    LET found == search_minerals(minerals, MineralFilter(mineral)) IN
    IF found = <<>> THEN NoChart ELSE Chart(CountryProduction(found))

SliceTo_Inclusive(seq, limit) ==
    SubSeq(seq, 1, IF limit + 1 < Len(seq) THEN limit + 1 ELSE Len(seq))

\* seq[:limit]
SliceTo(seq, limit) ==
    IF limit >= 0
    THEN SubSeq(seq, 1, IF limit < Len(seq) THEN limit ELSE Len(seq))
    ELSE SubSeq(seq, 1, Len(seq) + limit)

\* generate_top_producers, lines 192-204
generate_top_producers(minerals, limit) ==
    Chart(SliceTo(SortedDesc(CountryProduction(minerals)), limit))

RECURSIVE GCD(_, _)
GCD(a, b) == IF b = 0 THEN a ELSE GCD(b, a % b)

\* a / b on numbers: the quotient as a fraction in lowest terms
Div(a, b) == [num |-> a \div GCD(a, b), den |-> b \div GCD(a, b)]
FracLess(x, y) == x.num * y.den < y.num * x.den

\* mineral_prices[name].append(price): per mineral the sum and the number of its prices
AddPrice(items, key, price) ==
    IF \E i \in DOMAIN items : items[i][1] = key
    THEN [i \in DOMAIN items |->
            IF items[i][1] = key
            THEN <<key, [sum |-> items[i][2].sum + price, len |-> items[i][2].len + 1]>>
            ELSE items[i]]
    ELSE Append(items, <<key, [sum |-> price, len |-> 1]>>)

RECURSIVE MineralPricesFrom(_, _)
MineralPricesFrom(items, records) ==
    IF records = <<>> THEN items
    ELSE MineralPricesFrom(AddPrice(items, Head(records).mineral_name, Head(records).price),
                           Tail(records))

\* the place of a (mineral, average) pair in a list sorted by average, largest first
InsertFracDesc(sorted, item) ==
    LET before == {i \in DOMAIN sorted : ~FracLess(sorted[i][2], item[2])}
        k == IF before = {} THEN 0 ELSE CHOOSE i \in before : \A j \in before : j <= i
    IN SubSeq(sorted, 1, k) \o <<item>> \o SubSeq(sorted, k + 1, Len(sorted))

RECURSIVE SortedFracDescFrom(_, _)
SortedFracDescFrom(sorted, items) ==
    IF items = <<>> THEN sorted
    ELSE SortedFracDescFrom(InsertFracDesc(sorted, Head(items)), Tail(items))

\* generate_price_comparison, lines 144-163
generate_price_comparison(minerals) ==
    LET mineral_prices == MineralPricesFrom(<<>>, minerals)
        averages == [i \in DOMAIN mineral_prices |->
                        <<mineral_prices[i][1],
                          Div(mineral_prices[i][2].sum, mineral_prices[i][2].len)>>]
    IN Chart(SortedFracDescFrom(<<>>, averages))

MaxItem_Last(items) ==
    items[CHOOSE i \in DOMAIN items :
            /\ \A j \in DOMAIN items : items[j][2] <= items[i][2]
            /\ \A j \in DOMAIN items : j > i => items[j][2] < items[i][2]]

\* max(country_production.items(), key=lambda x: x[1]): the first of the largest
MaxItem(items) ==
    items[CHOOSE i \in DOMAIN items :
            /\ \A j \in DOMAIN items : items[j][2] <= items[i][2]
            /\ \A j \in 1..(i - 1) : items[j][2] < items[i][2]]

get_summary_statistics_NoDefault(minerals) ==
    LET country_production == CountryProduction(minerals)
        top_producer == IF country_production # <<>> THEN MaxItem(country_production)
                        ELSE <<<<>>, -1>>
    IN [total_production |-> SumOver(minerals, "production_volume"),
        total_reserves |-> SumOver(minerals, "reserves"),
        avg_price |-> IF minerals # <<>>
                      THEN Div(SumOver(minerals, "price"), Len(minerals))
                      ELSE [num |-> 0, den |-> 1],
        top_producer |-> top_producer[1],
        top_producer_volume |-> top_producer[2]]

\* get_summary_statistics
get_summary_statistics(minerals) ==
    LET country_production == CountryProduction(minerals)
        top_producer == IF country_production # <<>> THEN MaxItem(country_production)
                        ELSE <<<<"N/A">>, 0>>
    IN [total_production |-> SumOver(minerals, "production_volume"),
        total_reserves |-> SumOver(minerals, "reserves"),
        avg_price |-> IF minerals # <<>>
                      THEN Div(SumOver(minerals, "price"), Len(minerals))
                      ELSE [num |-> 0, den |-> 1],
        top_producer |-> top_producer[1],
        top_producer_volume |-> top_producer[2]]

(***************************************************************************)
(* Inputs of the calls                                                     *)
(***************************************************************************)
bob == <<"b","o","b">>
Bob == <<"B","o","b">>
eve == <<"e","v","e">>
Admin == <<"A","d","m","i","n">>

UsernameInputs == {<<>>, admin, Admin, bob, Bob, eve}
PasswordInputs == {"", "admin123", "pw1"}
EmailInputs    == {"", "e@x.org"}
RoleInputs     == {Unspecified, "Investor", "Auditor"}
PermissionInputs ==
    UNION {role_permissions[r] : r \in DOMAIN role_permissions} \cup {"drop_tables"}

\* the request threads of the server (app.run: the development server is threaded)
Threads == {1, 2}

AuthInit ==
    /\ usersFile = [valid |-> TRUE, users |-> default_users]
    /\ nextId = Len(default_users) + 1
    /\ lastCall = [op |-> "none"]
    /\ registered = {}
    /\ thr = [t \in Threads |-> [pc |-> "idle"]]

(***************************************************************************)
(* Sequential calls: one request at a time, each handler runs to its end   *)
(***************************************************************************)
\* ensure_file_exists: the default users are written only when the path does
\* not exist
ensure_file_exists(exists, file) ==
    IF ~exists THEN [valid |-> TRUE, users |-> default_users] ELSE file

\* Authentication() is constructed again (the application restarts);
\* data/users.json exists from the first construction on
ConstructCall ==
    /\ usersFile.valid
    /\ usersFile' = ensure_file_exists(TRUE, usersFile)
    /\ lastCall' = [op |-> "ensure_file_exists"]
    /\ UNCHANGED <<nextId, registered, thr, dbVars, qryVars, webVars>>

RegisterCall ==
    \E username \in UsernameInputs, password \in PasswordInputs,
       email \in EmailInputs, role \in RoleInputs :
        LET r == register(usersFile.users, nextId, username, password, email, role) IN
        /\ usersFile.valid
        /\ usersFile' = IF r.saves THEN [valid |-> TRUE, users |-> r.users] ELSE usersFile
        /\ nextId' = IF r.saves THEN nextId + 1 ELSE nextId
        /\ lastCall' = [op |-> "register", username |-> username, password |-> password,
                        email |-> email, role |-> role,
                        result |-> r.result]
        /\ registered' = IF r.result.success
                         THEN registered \cup {[username |-> username, password |-> password,
                                                role |-> RoleParam(role)]}
                         ELSE registered
        /\ UNCHANGED <<thr, dbVars, qryVars, webVars>>

LoginCall ==
    \E username \in UsernameInputs, password \in PasswordInputs :
        /\ usersFile.valid
        /\ lastCall' = [op |-> "login", username |-> username, password |-> password,
                        result |-> login(usersFile.users, username, password)]
        /\ UNCHANGED <<usersFile, nextId, registered, thr, dbVars, qryVars, webVars>>

StoredRoles == {usersFile.users[i].role : i \in DOMAIN usersFile.users}

CheckPermissionCall ==
    \E role \in StoredRoles \cup (RoleInputs \ {Unspecified}), permission \in PermissionInputs :
        /\ lastCall' = [op |-> "check_permission", role |-> role, permission |-> permission,
                        result |-> check_permission(role, permission)]
        /\ UNCHANGED <<usersFile, nextId, registered, thr, dbVars, qryVars, webVars>>

AuthNext == ConstructCall \/ RegisterCall \/ LoginCall \/ CheckPermissionCall

(***************************************************************************)
(* app.py: the session of one browser.  The requests of a browser arrive   *)
(* one after the other; the messages that flash() queues in the session    *)
(* are left out, they never touch user_id, username or role.               *)
(***************************************************************************)
\* a browser that has sent no request yet: an empty session
NoSession == [key \in {} |-> ""]

WebInit ==
    /\ session = NoSession
    /\ resp = [route |-> "none", method |-> "GET", status |-> "none", target |-> "none"]
    /\ signedIn = <<>>

\* render_template(template)
Page(route, method, template) ==
    [route |-> route, method |-> method, status |-> "page", target |-> template]
\* redirect(url_for(endpoint))
Redirect(route, method, endpoint) ==
    [route |-> route, method |-> method, status |-> "redirect", target |-> endpoint]

login_required_Open(sess) == TRUE

\* login_required: TRUE when the wrapped view is called, FALSE when the
\* request is redirected to the login page
login_required(sess) == "user_id" \in DOMAIN sess

\* lines 79-81: session['user_id'], session['username'], session['role']
SessionOf(user) == [user_id |-> user.id, username |-> user.username, role |-> user.role]

\* the routes behind @login_required and the template each renders
ProtectedRoutes ==
    ("dashboard" :> "dashboard.html") @@ ("minerals" :> "minerals.html")
    @@ ("countries" :> "countries.html") @@ ("country_profile" :> "country_profile.html")
    @@ ("map_view" :> "map.html") @@ ("analytics_dashboard" :> "analytics.html")
    @@ ("production_chart" :> "production_chart.html")
    @@ ("market_share_chart" :> "market_share.html")
    @@ ("price_comparison" :> "price_comparison.html")
    @@ ("top_producers" :> "top_producers.html")

SessionUsernameInputs == {<<>>, admin, Admin, bob}
SessionPasswordInputs == {"", "admin123", "pw1"}

\* GET /
IndexGet ==
    /\ resp' = IF "user_id" \in DOMAIN session
               THEN Redirect("index", "GET", "dashboard")
               ELSE Page("index", "GET", "index.html")
    /\ UNCHANGED <<session, signedIn, usersFile, nextId, lastCall, registered>>
    /\ UNCHANGED <<thr, dbVars, qryVars>>

\* GET /login
LoginGet ==
    /\ resp' = Page("login", "GET", "login.html")
    /\ UNCHANGED <<session, signedIn, usersFile, nextId, lastCall, registered>>
    /\ UNCHANGED <<thr, dbVars, qryVars>>

\* POST /login
LoginPost ==
    \E username \in SessionUsernameInputs, password \in SessionPasswordInputs :
        LET result == login(usersFile.users, username, password) IN
        /\ usersFile.valid
        /\ lastCall' = [op |-> "login", username |-> username, password |-> password,
                        result |-> result]
        /\ session' = IF result.success THEN SessionOf(result.user) ELSE session
        /\ signedIn' = IF result.success THEN <<result.user>> ELSE signedIn
        /\ resp' = IF result.success
                   THEN Redirect("login", "POST", "dashboard")
                   ELSE Page("login", "POST", "login.html")
        /\ UNCHANGED <<usersFile, nextId, registered>>
        /\ UNCHANGED <<thr, dbVars, qryVars>>

\* POST /register
RegisterPost ==
    \E username \in SessionUsernameInputs, password \in SessionPasswordInputs,
       role \in RoleInputs :
        LET r == register(usersFile.users, nextId, username, password, "e@x.org", role) IN
        /\ usersFile.valid
        /\ usersFile' = IF r.saves THEN [valid |-> TRUE, users |-> r.users] ELSE usersFile
        /\ nextId' = IF r.saves THEN nextId + 1 ELSE nextId
        /\ lastCall' = [op |-> "register", username |-> username, password |-> password,
                        email |-> "e@x.org", role |-> role, result |-> r.result]
        /\ registered' = IF r.result.success
                         THEN registered \cup {[username |-> username, password |-> password,
                                                role |-> RoleParam(role)]}
                         ELSE registered
        /\ resp' = IF r.result.success
                   THEN Redirect("register", "POST", "login")
                   ELSE Page("register", "POST", "register.html")
        /\ UNCHANGED <<session, signedIn>>
        /\ UNCHANGED <<thr, dbVars, qryVars>>

\* GET /logout: session.clear()
LogoutGet ==
    /\ session' = NoSession
    /\ signedIn' = <<>>
    /\ resp' = Redirect("logout", "GET", "index")
    /\ UNCHANGED <<usersFile, nextId, lastCall, registered>>
    /\ UNCHANGED <<thr, dbVars, qryVars>>

\* GET of a route behind @login_required
ProtectedGet ==
    \E route \in DOMAIN ProtectedRoutes :
        /\ resp' = IF login_required(session)
                   THEN Page(route, "GET", ProtectedRoutes[route])
                   ELSE Redirect(route, "GET", "login")
        /\ UNCHANGED <<session, signedIn, usersFile, nextId, lastCall, registered>>
        /\ UNCHANGED <<thr, dbVars, qryVars>>

WebNext == IndexGet \/ LoginGet \/ LoginPost \/ RegisterPost \/ LogoutGet \/ ProtectedGet

(***************************************************************************)
(* Concurrent register calls: each thread runs register statement by       *)
(* statement; the threads share only data/users.json.                      *)
(***************************************************************************)
ConcUsernameInputs == {<<>>, bob, Bob, eve}
ConcPasswordInputs == {"pw1", "pw2"}

\* lines 77-80: the call and its check of the required fields
RegBegin(t) ==
    \E username \in ConcUsernameInputs, password \in ConcPasswordInputs :
        /\ thr[t].pc = "idle"
        /\ thr' = [thr EXCEPT ![t] =
                IF FalsyStr(username) \/ Falsy(password) \/ Falsy("e@x.org")
                THEN [pc |-> "done", username |-> username, password |-> password,
                      result |-> register(<<>>, 0, username, password, "e@x.org", Unspecified).result]
                ELSE [pc |-> "load", username |-> username, password |-> password]]
        /\ UNCHANGED <<usersFile, nextId, lastCall, registered, dbVars, qryVars, webVars>>

\* line 82, load_users: json.load raises on a file another writer has truncated
RegLoad(t) ==
    /\ thr[t].pc = "load"
    /\ thr' = [thr EXCEPT ![t] =
            IF usersFile.valid
            THEN [pc |-> "check", username |-> thr[t].username, password |-> thr[t].password,
                  users |-> usersFile.users]
            ELSE [pc |-> "done", username |-> thr[t].username, password |-> thr[t].password,
                  result |-> [success |-> FALSE, message |-> "<JSONDecodeError raised>"]]]
    /\ UNCHANGED <<usersFile, nextId, lastCall, registered, dbVars, qryVars, webVars>>

\* lines 85-98: the duplicate check on the loaded list, then the append to it
RegCheck(t) ==
    LET r == register(thr[t].users, nextId, thr[t].username, thr[t].password,
                      "e@x.org", Unspecified) IN
    /\ thr[t].pc = "check"
    /\ thr' = [thr EXCEPT ![t] =
            IF r.saves
            THEN [pc |-> "open", username |-> thr[t].username, password |-> thr[t].password,
                  users |-> r.users, result |-> r.result]
            ELSE [pc |-> "done", username |-> thr[t].username, password |-> thr[t].password,
                  result |-> r.result]]
    /\ nextId' = IF r.saves THEN nextId + 1 ELSE nextId
    /\ UNCHANGED <<usersFile, lastCall, registered, dbVars, qryVars, webVars>>

\* line 74, save_users: open(..., 'w') truncates the file
RegOpen(t) ==
    /\ thr[t].pc = "open"
    /\ usersFile' = [valid |-> FALSE, users |-> <<>>]
    /\ thr' = [thr EXCEPT ![t].pc = "dump"]
    /\ UNCHANGED <<nextId, lastCall, registered, dbVars, qryVars, webVars>>

\* line 75 and line 101: json.dump writes the thread's list from offset 0, and
\* register returns success. When another writer has written since this
\* thread's open, the bytes of the two writes overlap: the file holds this
\* thread's list, or (this one being shorter) a mix that is not JSON.
RegDump(t) ==
    /\ thr[t].pc = "dump"
    /\ \/ usersFile' = [valid |-> TRUE, users |-> thr[t].users]
       \/ /\ usersFile.valid
          /\ usersFile' = [valid |-> FALSE, users |-> <<>>]
    /\ thr' = [thr EXCEPT ![t] =
            [pc |-> "done", username |-> thr[t].username, password |-> thr[t].password,
             result |-> thr[t].result]]
    /\ UNCHANGED <<nextId, lastCall, registered, dbVars, qryVars, webVars>>

ConcNext == \E t \in Threads :
    RegBegin(t) \/ RegLoad(t) \/ RegCheck(t) \/ RegOpen(t) \/ RegDump(t)

(***************************************************************************)
(* The loads of the workbook and the requests that read the JSON files     *)
(***************************************************************************)
RowCobalt ==
    [mineral |-> "Cobalt",
     countries |-> <<"DRC", ",", " ", "Zambia", " ", "(", "est.", ")", ",", " ", "Morocco">>,
     uses |-> "Batteries"]
RowLithium ==
    [mineral |-> "Lithium", countries |-> <<"Mali", ",", "Zimbabwe">>, uses |-> "Batteries"]
RowNaN ==
    [mineral |-> "Copper", countries |-> NaN, uses |-> "Wiring"]

MissingSource == [exists |-> FALSE, readable |-> FALSE, rows |-> <<>>]
Sheet(rows) == [exists |-> TRUE, readable |-> TRUE, rows |-> rows]

Sources ==
    {MissingSource,
     [exists |-> TRUE, readable |-> FALSE, rows |-> <<>>],
     Sheet(<<>>), Sheet(<<RowCobalt>>), Sheet(<<RowLithium>>),
     Sheet(<<RowCobalt, RowLithium>>), Sheet(<<RowCobalt, RowNaN>>)}

\* number of load_excel_data calls in a behaviour
MaxLoads == 2

Absent == [state |-> "absent", data |-> <<>>]
EmptySnapshot == [minerals |-> <<>>, deposits |-> <<>>]

\* the data directory before the first load
DbFresh ==
    /\ mineralsFile = Absent
    /\ depositsFile = Absent
    /\ uuidNext = 1
    /\ ldr = [pc |-> "idle"]
    /\ rdr = [pc |-> "idle"]
    /\ loads = 0
    /\ lastLoad = [done |-> FALSE, bad |-> FALSE]
    /\ hist = <<EmptySnapshot>>
    /\ qry = [op |-> "none"]
    /\ loaded = <<>>

DbInit == source \in Sources /\ DbFresh
DbQuiet == source = MissingSource /\ DbFresh

\* the workbook is replaced, removed or damaged between or during loads
ChangeSource ==
    /\ \E src \in Sources \ {source} : source' = src
    /\ UNCHANGED <<mineralsFile, depositsFile, uuidNext, ldr, rdr, loads, lastLoad, hist>>
    /\ UNCHANGED <<authVars, qryVars, webVars>>

\* lines 29-36: load_excel_data is called; os.path.exists(self.excel_file)
LoadStart ==
    /\ ldr.pc = "idle"
    /\ loads < MaxLoads
    /\ loads' = loads + 1
    /\ ldr' = IF source.exists THEN [pc |-> "read"] ELSE [pc |-> "empty_minerals", bad |-> TRUE]
    /\ UNCHANGED <<source, mineralsFile, depositsFile, uuidNext, rdr, lastLoad, hist>>
    /\ UNCHANGED <<authVars, qryVars, webVars>>

\* lines 38-73: read_excel and the loop over the rows; any exception goes to
\* the handler of lines 84-86
LoadRead ==
    /\ ldr.pc = "read"
    /\ IF SourceBad(source)
       THEN /\ ldr' = [pc |-> "empty_minerals", bad |-> TRUE]
            /\ UNCHANGED <<uuidNext, hist>>
       ELSE LET minerals_data == MineralsData(source.rows, uuidNext) IN
            /\ ldr' = [pc |-> "open_minerals", bad |-> FALSE, df |-> source.rows,
                       minerals_data |-> minerals_data]
            /\ uuidNext' = uuidNext + Len(minerals_data)
            /\ hist' = Append(hist,
                    [minerals |-> minerals_data,
                     deposits |-> SampleDeposits(source.rows, uuidNext + Len(minerals_data))])
    /\ UNCHANGED <<source, mineralsFile, depositsFile, rdr, loads, lastLoad>>
    /\ UNCHANGED <<authVars, qryVars, webVars>>

\* line 76: open(self.minerals_file, 'w') truncates the file
LoadOpenMinerals ==
    /\ ldr.pc = "open_minerals"
    /\ mineralsFile' = Truncated
    /\ ldr' = [ldr EXCEPT !.pc = "dump_minerals"]
    /\ UNCHANGED <<source, depositsFile, uuidNext, rdr, loads, lastLoad, hist>>
    /\ UNCHANGED <<authVars, qryVars, webVars>>

\* line 77: json.dump(minerals_data, f)
LoadDumpMinerals ==
    /\ ldr.pc = "dump_minerals"
    /\ mineralsFile' = Written(ldr.minerals_data)
    /\ ldr' = [ldr EXCEPT !.pc = "open_deposits"]
    /\ UNCHANGED <<source, depositsFile, uuidNext, rdr, loads, lastLoad, hist>>
    /\ UNCHANGED <<authVars, qryVars, webVars>>

\* lines 82, 131-177: create_sample_deposits(df) builds deposits and opens
\* self.deposits_file for writing
LoadOpenDeposits ==
    /\ ldr.pc = "open_deposits"
    /\ LET deposits == SampleDeposits(ldr.df, uuidNext) IN
        /\ ldr' = [pc |-> "dump_deposits", bad |-> FALSE, deposits |-> deposits]
        /\ uuidNext' = uuidNext + Len(deposits)
    /\ depositsFile' = Truncated
    /\ UNCHANGED <<source, mineralsFile, rdr, loads, lastLoad, hist>>
    /\ UNCHANGED <<authVars, qryVars, webVars>>

\* line 178: json.dump(deposits, f); load_excel_data returns
LoadDumpDeposits ==
    /\ ldr.pc = "dump_deposits"
    /\ depositsFile' = Written(ldr.deposits)
    /\ ldr' = [pc |-> "idle"]
    /\ lastLoad' = [done |-> TRUE, bad |-> FALSE]
    /\ UNCHANGED <<source, mineralsFile, uuidNext, rdr, loads, hist>>
    /\ UNCHANGED <<authVars, qryVars, webVars>>

\* lines 184-187, first file of the loop of create_empty_json_files
LoadEmptyMinerals ==
    /\ ldr.pc = "empty_minerals"
    /\ mineralsFile' = CreateEmpty(mineralsFile)
    /\ ldr' = [ldr EXCEPT !.pc = "empty_deposits"]
    /\ UNCHANGED <<source, depositsFile, uuidNext, rdr, loads, lastLoad, hist>>
    /\ UNCHANGED <<authVars, qryVars, webVars>>

\* lines 184-187, second file; load_excel_data returns
LoadEmptyDeposits ==
    /\ ldr.pc = "empty_deposits"
    /\ depositsFile' = CreateEmpty(depositsFile)
    /\ ldr' = [pc |-> "idle"]
    /\ lastLoad' = [done |-> TRUE, bad |-> TRUE]
    /\ UNCHANGED <<source, mineralsFile, uuidNext, rdr, loads, hist>>
    /\ UNCHANGED <<authVars, qryVars, webVars>>

\* the oldest complete snapshot a request starting now can still be served
Publishing == ldr.pc \in {"open_minerals", "dump_minerals", "open_deposits", "dump_deposits"}
OldestCurrent == IF Publishing THEN Len(hist) - 1 ELSE Len(hist)

\* a request reads the records (get_all_minerals) ...
ReadMinerals ==
    /\ rdr.pc \in {"idle", "done"}
    /\ rdr' = [pc |-> "minerals", lo |-> OldestCurrent, minerals |-> load_json(mineralsFile)]
    /\ UNCHANGED <<source, mineralsFile, depositsFile, uuidNext, ldr, loads, lastLoad, hist>>
    /\ UNCHANGED <<authVars, qryVars, webVars>>

\* ... and then the deposits (get_deposits with no filter)
ReadDeposits ==
    /\ rdr.pc = "minerals"
    /\ rdr' = [pc |-> "done", lo |-> rdr.lo, minerals |-> rdr.minerals,
               deposits |-> load_json(depositsFile)]
    /\ UNCHANGED <<source, mineralsFile, depositsFile, uuidNext, ldr, loads, lastLoad, hist>>
    /\ UNCHANGED <<authVars, qryVars, webVars>>

DbNext ==
    \/ ChangeSource
    \/ LoadStart \/ LoadRead
    \/ LoadOpenMinerals \/ LoadDumpMinerals \/ LoadOpenDeposits \/ LoadDumpDeposits
    \/ LoadEmptyMinerals \/ LoadEmptyDeposits
    \/ ReadMinerals \/ ReadDeposits

(***************************************************************************)
(* Sequential use of the database: load_excel_data runs to its end (the    *)
(* constructor's call, then reloads), and between loads the pages ask      *)
(* their queries and aggregations, one call at a time.                     *)
(***************************************************************************)
load_excel_data_Appending(src, minerals_file, deposits_file, uuid) ==
    IF SourceBad(src)
    THEN [minerals |-> CreateEmpty(minerals_file), deposits |-> CreateEmpty(deposits_file),
          uuid |-> uuid]
    ELSE LET minerals_data == MineralsData(src.rows, uuid)
             deposits == SampleDeposits(src.rows, uuid + Len(minerals_data))
         IN [minerals |-> Written(load_json(minerals_file) \o minerals_data),
             deposits |-> Written(load_json(deposits_file) \o deposits),
             uuid |-> uuid + Len(minerals_data) + Len(deposits)]

\* load_excel_data run to its end: the two files and the id source afterwards
load_excel_data(src, minerals_file, deposits_file, uuid) ==
    IF SourceBad(src)
    THEN [minerals |-> CreateEmpty(minerals_file), deposits |-> CreateEmpty(deposits_file),
          uuid |-> uuid]
    ELSE LET minerals_data == MineralsData(src.rows, uuid)
             deposits == SampleDeposits(src.rows, uuid + Len(minerals_data))
         IN [minerals |-> Written(minerals_data), deposits |-> Written(deposits),
             uuid |-> uuid + Len(minerals_data) + Len(deposits)]

\* rows of the sheet: upper- and lower-case spellings, a parenthetical note,
\* blanks around a name, a trailing comma, a note before the name, a country
\* listed twice, countries outside the production and coordinate tables
RowNickel ==
    [mineral |-> "Nickel", countries |-> <<"Zambia", ",", " ", "Mali">>, uses |-> "Steel"]
RowCobaltLower ==
    [mineral |-> "cobalt", countries |-> <<"drc", ",", "Kenya">>, uses |-> "Magnets"]
RowCobaltTwice ==
    [mineral |-> "Cobalt",
     countries |-> <<"Zambia", ",", "DRC", ",", " ", "DRC", " ", "(", "est.", ")">>,
     uses |-> "Alloys"]
RowGold ==
    [mineral |-> "Gold",
     countries |-> <<" ", "Mali", " ", ",", "(", "est.", ")", " ", "Kenya", ",">>,
     uses |-> "Electronics"]
RowLithiumNote ==
    [mineral |-> "Lithium",
     countries |-> <<"Kenya", " ", "(", "Zambia", ",", " ", "DRC", ")">>,
     uses |-> "Batteries"]
RowBlank ==
    [mineral |-> "Gold", countries |-> <<>>, uses |-> "Coins"]

QuerySources ==
    {MissingSource,
     Sheet(<<>>),
     Sheet(<<RowNickel>>),
     Sheet(<<RowNickel, RowCobaltLower, RowCobalt>>),
     Sheet(<<RowLithium, RowCobaltTwice, RowNickel>>),
     Sheet(<<RowGold, RowLithiumNote, RowBlank, RowCobaltLower>>)}

MineralInputs == {"", "Cobalt", "COBALT", "Lithium"}
CountryInputs == {<<>>, <<"DRC">>, <<"drc">>, <<"Kenya">>}
FilterInputs ==
    {NoFilters}
    \cup {MineralFilter(m) : m \in MineralInputs}
    \cup {CountryFilter(c) : c \in CountryInputs}
    \cup {BothFilters(m, c) : m \in MineralInputs, c \in CountryInputs}
\* app.py passes limit=10; the method takes any integer
LimitInputs == (-2..3) \cup {10}

InitQuery ==
    /\ AuthInit
    /\ source \in QuerySources
    /\ DbFresh
    /\ WebInit

\* the workbook is replaced between loads
ReplaceSource ==
    /\ \E src \in QuerySources \ {source} : source' = src
    /\ UNCHANGED <<mineralsFile, depositsFile, uuidNext, ldr, rdr, loads, lastLoad, hist>>
    /\ UNCHANGED <<authVars, qryVars, webVars>>

\* MineralDatabase() or a later load_excel_data(), from its first line to its return
LoadCall ==
    /\ loads < MaxLoads
    /\ LET after == load_excel_data(source, mineralsFile, depositsFile, uuidNext) IN
        /\ mineralsFile' = after.minerals
        /\ depositsFile' = after.deposits
        /\ uuidNext' = after.uuid
        /\ hist' = IF SourceBad(source) THEN hist
                   ELSE Append(hist, [minerals |-> after.minerals.data,
                                      deposits |-> after.deposits.data])
    /\ loads' = loads + 1
    /\ lastLoad' = [done |-> TRUE, bad |-> SourceBad(source)]
    /\ loaded' = <<source>>
    /\ qry' = [op |-> "load_excel_data"]
    /\ UNCHANGED <<source, ldr, rdr>>
    /\ UNCHANGED <<authVars, webVars>>

\* what every query below leaves alone
QueryFrame ==
    /\ lastLoad.done
    /\ UNCHANGED <<dbVars, loaded>>
    /\ UNCHANGED <<authVars, webVars>>

\* get_all_minerals() as the methods of this section call it
AllMinerals == load_json(mineralsFile)

SearchCall ==
    /\ \E filters \in FilterInputs :
        qry' = [op |-> "search_minerals", filters |-> filters, minerals |-> AllMinerals,
                result |-> search_minerals(AllMinerals, filters)]
    /\ QueryFrame

UniqueCall ==
    /\ qry' = [op |-> "unique", minerals |-> AllMinerals,
               mineral_names |-> get_unique_mineral_names(AllMinerals),
               countries |-> get_unique_countries(AllMinerals),
               count_countries |-> count_countries(AllMinerals)]
    /\ QueryFrame

ProductionByCountryCall ==
    /\ \E mineral \in MineralInputs :
        qry' = [op |-> "generate_production_by_country", mineral |-> mineral,
                minerals |-> AllMinerals,
                result |-> generate_production_by_country(AllMinerals, mineral)]
    /\ QueryFrame

MarketSharePieCall ==
    /\ \E mineral \in MineralInputs :
        qry' = [op |-> "generate_market_share_pie", mineral |-> mineral,
                minerals |-> AllMinerals,
                result |-> generate_market_share_pie(AllMinerals, mineral)]
    /\ QueryFrame

TopProducersCall ==
    /\ \E limit \in LimitInputs :
        qry' = [op |-> "generate_top_producers", limit |-> limit, minerals |-> AllMinerals,
                result |-> generate_top_producers(AllMinerals, limit)]
    /\ QueryFrame

PriceComparisonCall ==
    /\ qry' = [op |-> "generate_price_comparison", minerals |-> AllMinerals,
               result |-> generate_price_comparison(AllMinerals)]
    /\ QueryFrame

SummaryStatisticsCall ==
    /\ qry' = [op |-> "get_summary_statistics", minerals |-> AllMinerals,
               result |-> get_summary_statistics(AllMinerals)]
    /\ QueryFrame

QueryNext ==
    \/ ReplaceSource \/ LoadCall
    \/ SearchCall \/ UniqueCall
    \/ ProductionByCountryCall \/ MarketSharePieCall \/ TopProducersCall
    \/ PriceComparisonCall \/ SummaryStatisticsCall

(***************************************************************************)
(* Specifications                                                          *)
(***************************************************************************)
InitAuth == AuthInit /\ DbQuiet /\ WebInit
InitDb == AuthInit /\ DbInit /\ WebInit

\* sequential Authentication calls
SpecAuth == InitAuth /\ [][AuthNext]_vars
\* two request threads registering concurrently
SpecConc == InitAuth /\ [][ConcNext]_vars
\* loads of the workbook with a request reading concurrently
SpecDb == InitDb /\ [][DbNext]_vars
\* sequential loads, queries and aggregations
SpecQuery == InitQuery /\ [][QueryNext]_vars
\* the requests of one browser, one after the other
SpecSession == InitAuth /\ [][WebNext]_vars

(***************************************************************************)
(* Properties of the credential store                                      *)
(***************************************************************************)
Done(t) == thr[t].pc = "done"
Succeeded(t) == Done(t) /\ thr[t].result.success
AccountsNamed(username) ==
    {i \in DOMAIN usersFile.users : Lower(usersFile.users[i].username) = Lower(username)}

\* C1: of two register calls for the same username (ignoring case) that ran
\* against the same store, in any interleaving of their load / check / save
\* steps, at most one returns success, and the store never holds two
\* accounts with that username.
C1_AtMostOneSuccess ==
    \A t1, t2 \in Threads :
        (t1 # t2 /\ Done(t1) /\ Done(t2) /\ Lower(thr[t1].username) = Lower(thr[t2].username))
        => /\ ~(Succeeded(t1) /\ Succeeded(t2))
           /\ Cardinality(AccountsNamed(thr[t1].username)) <= 1

\* C2: when two register calls for different unused usernames ran
\* concurrently and both returned success, the store holds both new accounts.
C2_NoLostRegistration ==
    \A t1, t2 \in Threads :
        (t1 # t2 /\ Succeeded(t1) /\ Succeeded(t2)
            /\ Lower(thr[t1].username) # Lower(thr[t2].username))
        => /\ usersFile.valid
           /\ AccountsNamed(thr[t1].username) # {}
           /\ AccountsNamed(thr[t2].username) # {}

NoTwoAccountsEqualIgnoringCase ==
    \A i, j \in DOMAIN usersFile.users :
        Lower(usersFile.users[i].username) = Lower(usersFile.users[j].username) => i = j

DuplicateRegisterRejected ==
    (/\ lastCall'.op = "register"
     /\ \E i \in DOMAIN usersFile.users :
            Lower(usersFile.users[i].username) = Lower(lastCall'.username))
    => (~lastCall'.result.success /\ usersFile' = usersFile)

\* C5: through every sequence of sequential register calls from the
\* pre-seeded store no two stored accounts have usernames equal ignoring
\* case, and a register call whose username equals an existing account's
\* ignoring case returns a failed result and leaves the store unchanged.
C5_UniqueUsernames ==
    [](NoTwoAccountsEqualIgnoringCase) /\ [][DuplicateRegisterRejected]_vars

C5_Witness ==
    /\ lastCall.op = "register"
    /\ lastCall.username = Admin
    /\ ~Falsy(lastCall.password) /\ ~Falsy(lastCall.email)
    /\ ~lastCall.result.success
    /\ Len(usersFile.users) > Len(default_users)

\* C6: after any sequence of register calls the role of every stored account
\* is a role of the permission table, and a registration that gives no role
\* stores Researcher.
C6_StoredRolesKnown ==
    /\ \A i \in DOMAIN usersFile.users : usersFile.users[i].role \in DOMAIN role_permissions
    /\ (lastCall.op = "register" /\ lastCall.result.success /\ lastCall.role = Unspecified)
        => usersFile.users[Len(usersFile.users)].role = "Researcher"

\* C7: once register(username, password, email, role) has returned success,
\* a login with that password and that username in any letter case returns
\* success, and the user it returns carries the registered username and
\* role and has no password field.
C7_RegisterLoginRoundTrip ==
    lastCall.op = "login" =>
        \A r \in registered :
            (Lower(lastCall.username) = Lower(r.username) /\ lastCall.password = r.password)
            => /\ lastCall.result.success
               /\ lastCall.result.user.username = r.username
               /\ lastCall.result.user.role = r.role
               /\ "password" \notin DOMAIN lastCall.result.user

C7_Witness ==
    /\ lastCall.op = "login"
    /\ lastCall.result.success
    /\ \E r \in registered :
        /\ Lower(lastCall.username) = Lower(r.username)
        /\ lastCall.username # r.username
        /\ lastCall.password = r.password

GenericFailure == [success |-> FALSE, message |-> "Invalid username or password"]

UnknownUsername(username) ==
    \A i \in DOMAIN usersFile.users :
        Lower(usersFile.users[i].username) # Lower(username)

WrongPassword(username, password) ==
    \E i \in DOMAIN usersFile.users :
        /\ Lower(usersFile.users[i].username) = Lower(username)
        /\ usersFile.users[i].password # hash_password(password)

\* C8: for every stored credential set, a login (username and password both
\* given) with an unknown username and a login with a known username and a
\* wrong password return one and the same failed result, with the generic
\* message; a login with a field missing returns a result that does not
\* depend on the store.
C8_GenericAuthFailure ==
    /\ lastCall.op = "login" =>
        IF FalsyStr(lastCall.username) \/ Falsy(lastCall.password)
        THEN lastCall.result = [success |-> FALSE, message |-> "Username and password required"]
        ELSE (UnknownUsername(lastCall.username)
                \/ WrongPassword(lastCall.username, lastCall.password))
             => lastCall.result = GenericFailure
    /\ \A u1, u2 \in UsernameInputs \ {<<>>}, p1, p2 \in PasswordInputs \ {""} :
        (UnknownUsername(u1) /\ WrongPassword(u2, p2))
        => login(usersFile.users, u1, p1) = login(usersFile.users, u2, p2)

C8_Witness ==
    /\ lastCall.op = "login"
    /\ lastCall.username = Bob
    /\ WrongPassword(lastCall.username, lastCall.password)
    /\ ~Falsy(lastCall.password)
    /\ lastCall.result = GenericFailure
    /\ UnknownUsername(eve)

\* C9: check_permission(role, permission) is true exactly when role is a key
\* of role_permissions and permission is in that role's set; for a role that
\* is not a key it is false for every permission, also for a role string
\* that registration put into the store.
C9_PermissionLookup ==
    lastCall.op = "check_permission" =>
        /\ lastCall.result = TRUE <=>
            (/\ lastCall.role \in DOMAIN role_permissions
             /\ lastCall.permission \in role_permissions[lastCall.role])
        /\ lastCall.role \notin {"Administrator", "Investor", "Researcher"}
            => lastCall.result = FALSE

C9_Witness ==
    /\ lastCall.op = "check_permission"
    /\ lastCall.role \notin DOMAIN role_permissions
    /\ lastCall.role \in StoredRoles
    /\ lastCall.permission = "view_all"
    /\ lastCall.result = FALSE

\* C10: every permission that check_permission grants to some role it also
\* grants to the Administrator role.
C10_AdministratorFullAccess ==
    (lastCall.op = "check_permission" /\ lastCall.result = TRUE)
    => check_permission("Administrator", lastCall.permission)

(***************************************************************************)
(* Properties of the database files                                        *)
(***************************************************************************)
Observed == [minerals |-> rdr.minerals, deposits |-> rdr.deposits]

\* C3: a request that reads the records and the deposits while a reload is
\* in progress observes a complete snapshot that was current during the
\* request: the complete sets of before the reload or the complete sets of
\* after it, never an empty, truncated or mixed state.
C3_ReadersSeeCompleteSnapshot ==
    rdr.pc = "done" => \E k \in rdr.lo..Len(hist) : Observed = hist[k]

\* C4: when a load has run with the source missing or malformed, then after
\* the load the record set and the deposit set are both empty, whatever an
\* earlier load had produced.
C4_BadSourceGivesEmptySets ==
    (ldr.pc = "idle" /\ lastLoad.done /\ lastLoad.bad)
    => (load_json(mineralsFile) = <<>> /\ load_json(depositsFile) = <<>>)

(***************************************************************************)
(* Properties of the query engine                                          *)
(***************************************************************************)
Letters == (65..90) \cup (97..122)
\* two strings differ at most in the case of their letters
EqualIgnoringCase(a, b) ==
    /\ Len(a) = Len(b)
    /\ \A i \in DOMAIN a :
        \/ a[i] = b[i]
        \/ a[i] \in Letters /\ b[i] \in Letters /\ (a[i] = b[i] + 32 \/ b[i] = a[i] + 32)

MineralText(name) == IF name = "" THEN <<>> ELSE WordText(name)

\* the sequence of the elements of seq at the indices in idx, in the order of seq
Picked(seq, idx) ==
    [k \in 1..Cardinality(idx) |->
        seq[CHOOSE i \in idx : Cardinality({j \in idx : j <= i}) = k]]

\* a field of the filter is present; with nonEmpty, present with a value
\* other than the empty string
Constrains(filters, key, nonEmpty) ==
    /\ key \in DOMAIN filters
    /\ nonEmpty => IF key = "mineral_name" THEN filters[key] # "" ELSE filters[key] # <<>>

\* the records of allRecords that equal the filter, ignoring case, on each
\* field the filter constrains
Expected(minerals, filters, nonEmpty) ==
    Picked(minerals,
           {i \in DOMAIN minerals :
                /\ Constrains(filters, "mineral_name", nonEmpty)
                    => EqualIgnoringCase(MineralText(minerals[i].mineral_name),
                                         MineralText(filters["mineral_name"]))
                /\ Constrains(filters, "country", nonEmpty)
                    => EqualIgnoringCase(Text(minerals[i].country), Text(filters["country"]))})

\* C11 as stated: search returns, in the order of allRecords(), exactly the
\* records that equal the filter ignoring case on every field present in
\* it, the empty string included; search({}) returns all records.
C11_SearchEveryPresentField ==
    qry.op = "search_minerals"
        => qry.result = Expected(qry.minerals, qry.filters, FALSE)

\* C11, amended: search returns, in the order of allRecords(), exactly the
\* records that equal the filter ignoring case on every field present in
\* it with a non-empty value; an absent or empty field imposes no
\* constraint and search({}) returns all records.
C11_SearchNonEmptyFields ==
    qry.op = "search_minerals"
        => /\ qry.result = Expected(qry.minerals, qry.filters, TRUE)
           /\ qry.filters = NoFilters => qry.result = qry.minerals

\* both fields given in another case than stored; some records match, some do not
C11_Witness ==
    /\ qry.op = "search_minerals"
    /\ qry.filters = BothFilters("COBALT", <<"DRC">>)
    /\ Len(qry.result) = 2
    /\ Len(qry.result) < Len(qry.minerals)
    /\ qry.result[1].mineral_name = "cobalt" /\ qry.result[1].country = <<"drc">>
    /\ qry.result[2].mineral_name = "Cobalt" /\ qry.result[2].country = <<"DRC">>

(***************************************************************************)
(* Properties of the aggregations                                          *)
(***************************************************************************)
RECURSIVE SumAt(_, _)
\* the sum of productionVolume over the records at the indices in idx
SumAt(minerals, idx) ==
    IF idx = {} THEN 0
    ELSE LET i == CHOOSE i \in idx : TRUE
         IN minerals[i].production_volume + SumAt(minerals, idx \ {i})

\* the summed production of one country over the given records
ProductionOf(minerals, country) ==
    SumAt(minerals, {i \in DOMAIN minerals : minerals[i].country = country})

CountriesOf(minerals) == {minerals[i].country : i \in DOMAIN minerals}

\* pairs (country, total), every total the country's summed production, no
\* country twice
GroupedByCountry(pairs, minerals) ==
    /\ \A i \in DOMAIN pairs :
        /\ pairs[i][1] \in CountriesOf(minerals)
        /\ pairs[i][2] = ProductionOf(minerals, pairs[i][1])
    /\ \A i, j \in DOMAIN pairs : pairs[i][1] = pairs[j][1] => i = j

Descending(pairs) == \A i, j \in DOMAIN pairs : i < j => pairs[i][2] >= pairs[j][2]

IsPrefix(a, b) == Len(a) <= Len(b) /\ a = SubSeq(b, 1, Len(a))

\* topProducers(countCountries()) on the records the call read
FullRanking == generate_top_producers(qry.minerals, count_countries(qry.minerals)).data

\* sorted descending by per-country summed production over all records, and
\* a prefix of topProducers(countCountries()), which ranks every country
RankedPrefix ==
    /\ GroupedByCountry(qry.result.data, qry.minerals)
    /\ Descending(qry.result.data)
    /\ IsPrefix(qry.result.data, FullRanking)
    /\ {FullRanking[i][1] : i \in DOMAIN FullRanking} = CountriesOf(qry.minerals)

\* C12 as stated: for every integer limit, topProducers(limit) has at most
\* limit entries, is sorted descending by summed production and is a prefix
\* of topProducers(countCountries()).
C12_AtMostLimitForEveryInteger ==
    qry.op = "generate_top_producers"
        => Len(qry.result.data) <= qry.limit /\ RankedPrefix

\* C12, amended: for every integer limit, topProducers(limit) is sorted
\* descending by per-country summed production over all records and is a
\* prefix of topProducers(countCountries()); for every limit >= 0 it has at
\* most limit entries.
C12_TopProducersPrefix ==
    qry.op = "generate_top_producers"
        => /\ RankedPrefix
           /\ qry.limit >= 0 => Len(qry.result.data) <= qry.limit

\* a limit smaller than the number of countries cuts the ranking
C12_Witness ==
    /\ qry.op = "generate_top_producers"
    /\ qry.limit = 2
    /\ Len(qry.result.data) = 2
    /\ Len(FullRanking) > 2
    /\ qry.result.data[1][2] > qry.result.data[2][2]

\* lexicographic order of two strings: the first place where they differ
\* decides, a proper prefix comes first
Precedes(a, b) ==
    LET shorter == IF Len(a) < Len(b) THEN Len(a) ELSE Len(b)
        differ == {i \in 1..shorter : a[i] # b[i]}
    IN IF differ = {} THEN Len(a) < Len(b)
       ELSE LET d == CHOOSE i \in differ : \A j \in differ : i <= j IN a[d] < b[d]

\* among countries of equal summed production the one whose name is smaller comes first
TiesByName(pairs) ==
    \A i, j \in DOMAIN pairs :
        i < j /\ pairs[i][2] = pairs[j][2] => Precedes(Text(pairs[i][1]), Text(pairs[j][1]))

\* C13: productionByCountry(mineral) and topProducers(limit) are ordered
\* descending by summed production, and countries with equal summed
\* production appear in ascending country-name order, whatever the order of
\* the records.
C13_TiesInCountryNameOrder ==
    qry.op \in {"generate_production_by_country", "generate_top_producers"}
        => Descending(qry.result.data) /\ TiesByName(qry.result.data)

\* the records whose mineralName is the given name, ignoring case
MatchingMineral(minerals, mineral) ==
    Picked(minerals,
           {i \in DOMAIN minerals :
                EqualIgnoringCase(MineralText(minerals[i].mineral_name), MineralText(mineral))})

\* the (country, total) pairs of the records of one mineral
PairsOf(minerals, mineral) ==
    LET matching == MatchingMineral(minerals, mineral)
    IN {<<c, ProductionOf(matching, c)>> : c \in CountriesOf(matching)}

\* C14: for every mineral name (a non-empty string), marketShareByCountry
\* and productionByCountry hold the same set of (country, total) pairs,
\* one pair per country of the records whose mineralName matches, each
\* total the sum of productionVolume over those records of that country;
\* both are empty (no chart) when no record matches.
C14_SamePairsBothCharts ==
    /\ qry.op \in {"generate_production_by_country", "generate_market_share_pie"}
    /\ qry.mineral # ""
    => LET data == qry.result.data
           pairs == PairsOf(qry.minerals, qry.mineral)
       IN /\ {data[i] : i \in DOMAIN data} = pairs
          /\ Len(data) = Cardinality(pairs)
          /\ qry.result.chart = (pairs # {})
          /\ generate_production_by_country(qry.minerals, qry.mineral).chart
                = generate_market_share_pie(qry.minerals, qry.mineral).chart
          /\ LET production == generate_production_by_country(qry.minerals, qry.mineral).data
                 share == generate_market_share_pie(qry.minerals, qry.mineral).data
             IN {production[i] : i \in DOMAIN production} = {share[i] : i \in DOMAIN share}

\* the pie of a mineral with two records of one country, in another order
\* than the bar chart
C14_Witness ==
    /\ qry.op = "generate_market_share_pie"
    /\ qry.mineral = "COBALT"
    /\ qry.result = Chart(<<<<Zambia, 5000>>, <<DRC, 260000>>>>)
    /\ generate_production_by_country(qry.minerals, qry.mineral)
            = Chart(<<<<DRC, 260000>>, <<Zambia, 5000>>>>)

\* C15: on an empty record set summaryStatistics() returns totalProduction
\* 0, totalReserves 0, averagePrice 0 and topProducer ("N/A", 0); it
\* divides by nothing and takes no maximum of an empty collection.
C15_SummaryOfEmptySet ==
    qry.op = "get_summary_statistics" /\ qry.minerals = <<>>
        => /\ qry.result.total_production = 0
           /\ qry.result.total_reserves = 0
           /\ qry.result.avg_price.num = 0
           /\ qry.result.top_producer = <<"N/A">>
           /\ qry.result.top_producer_volume = 0

\* the statistics are asked for after a load that left no record
C15_Witness ==
    /\ qry.op = "get_summary_statistics"
    /\ lastLoad.done
    /\ mineralsFile = Written(<<>>)
    /\ qry.minerals = <<>>
    /\ qry.result.top_producer = <<"N/A">>

(***************************************************************************)
(* Properties of the loader                                                *)
(***************************************************************************)
\* what the counts and the aggregations return on the given files
Outputs(minerals_file, deposits_file) ==
    LET minerals == load_json(minerals_file) IN
    [records |-> count_minerals(minerals),
     countries |-> count_countries(minerals),
     deposits |-> count_deposits(load_json(deposits_file)),
     productionByCountry |->
        [mineral \in MineralInputs |-> generate_production_by_country(minerals, mineral)],
     topProducers |-> [limit \in LimitInputs |-> generate_top_producers(minerals, limit)],
     averagePriceByMineral |-> generate_price_comparison(minerals),
     summaryStatistics |-> get_summary_statistics(minerals)]

\* a load of the workbook that the load before it was given as well
LoadedAgain == loads' = loads + 1 /\ loaded = <<source>> /\ source' = source

\* C16: a second load() on an unchanged source leaves the record, country
\* and deposit counts and the outputs of productionByCountry, topProducers,
\* averagePriceByMineral and summaryStatistics as they were after the first.
C16_ReloadSameOutputs ==
    [][LoadedAgain => Outputs(mineralsFile', depositsFile') = Outputs(mineralsFile, depositsFile)]_vars

\* two loads of one sheet: the same records under fresh ids
C16_Witness ==
    /\ loads = 2
    /\ loaded = <<source>>
    /\ Len(hist) = 3
    /\ hist[3].minerals = mineralsFile.data
    /\ Len(hist[2].minerals) = Len(hist[3].minerals)
    /\ Len(hist[3].minerals) > 3
    /\ \A i \in DOMAIN hist[3].minerals :
        /\ hist[2].minerals[i].mineral_name = hist[3].minerals[i].mineral_name
        /\ hist[2].minerals[i].country = hist[3].minerals[i].country
        /\ hist[2].minerals[i].uses = hist[3].minerals[i].uses
        /\ hist[2].minerals[i].id # hist[3].minerals[i].id

\* the positions of the commas of a country cell
CommaPos(cell) == {i \in DOMAIN cell : cell[i] = ","}
\* the number of comma-separated tokens of the cells of rows 1..r
TokensUpTo(rows, r) ==
    r + Cardinality(UNION {{<<q, i>> : i \in CommaPos(rows[q].countries)} : q \in 1..r})

\* the k-th comma-separated token of a cell
TokenAt(cell, k) ==
    LET Pos(j) == IF j = 0 THEN 0
                  ELSE IF j > Cardinality(CommaPos(cell)) THEN Len(cell) + 1
                  ELSE CHOOSE i \in CommaPos(cell) :
                            Cardinality({h \in CommaPos(cell) : h <= i}) = j
    IN SubSeq(cell, Pos(k - 1) + 1, Pos(k) - 1)

\* a token without its parenthetical suffix and without the blanks around it
Canonical(token) ==
    LET parens == {i \in DOMAIN token : token[i] = "("}
        cut == IF parens = {} THEN token
               ELSE SubSeq(token, 1, (CHOOSE i \in parens : \A j \in parens : i <= j) - 1)
        inked == {i \in DOMAIN cut : cut[i] # " "}
    IN IF inked = {} THEN <<>>
       ELSE SubSeq(cut, CHOOSE i \in inked : \A j \in inked : i <= j,
                        CHOOSE i \in inked : \A j \in inked : j <= i)

\* the load before this state read a well-formed sheet and no load is under way
LoadedSheet == lastLoad.done /\ ~lastLoad.bad /\ loaded # <<>> /\ ldr.pc = "idle"

\* C17: the records are, row by row and within a row token by token, one
\* per comma-separated token of the row's country cell, its country the
\* token trimmed and without its parenthetical suffix; their number is the
\* number of tokens of all rows.
C17_OneRecordPerCountryToken ==
    LoadedSheet =>
        LET rows == loaded[1].rows
            records == load_json(mineralsFile)
        IN /\ Len(records) = TokensUpTo(rows, Len(rows))
           /\ \A r \in DOMAIN rows :
                \A k \in 1..(TokensUpTo(rows, r) - TokensUpTo(rows, r - 1)) :
                    LET record == records[TokensUpTo(rows, r - 1) + k] IN
                    /\ record.mineral_name = rows[r].mineral
                    /\ record.uses = rows[r].uses
                    /\ record.country = Canonical(TokenAt(rows[r].countries, k))

\* a sheet whose cells have blanks around a name, a note before a name, a
\* trailing comma, a note holding a comma, and an empty cell
C17_Witness ==
    /\ LoadedSheet
    /\ loaded[1].rows = <<RowGold, RowLithiumNote, RowBlank, RowCobaltLower>>
    /\ [i \in DOMAIN mineralsFile.data |-> mineralsFile.data[i].country]
            = <<Mali, <<>>, <<>>, <<"Kenya">>, <<"DRC", ")">>, <<>>, <<"drc">>, <<"Kenya">>>>

\* the rows whose canonical first country is in the coordinate table
RowsWithCoords(rows) ==
    {r \in DOMAIN rows : Canonical(TokenAt(rows[r].countries, 1)) \in DOMAIN country_coords}

\* C18: the deposits are, in row order, exactly one per row whose
\* canonical first listed country is in the coordinate table, placed in
\* that country; a row whose first country is not in the table has none,
\* and no second or later country of a row has one.
C18_OneDepositForFirstCountry ==
    LoadedSheet =>
        LET rows == loaded[1].rows
            deposits == load_json(depositsFile)
            located == RowsWithCoords(rows)
        IN /\ Len(deposits) = Cardinality(located)
           /\ \A n \in DOMAIN deposits :
                LET r == CHOOSE r \in located : Cardinality({q \in located : q <= r}) = n
                    first == Canonical(TokenAt(rows[r].countries, 1))
                IN /\ deposits[n].mineral = rows[r].mineral
                   /\ deposits[n].country = first
                   /\ deposits[n].latitude = country_coords[first].lat
                   /\ deposits[n].longitude = country_coords[first].lon

\* three rows, two deposits: a first country outside the table, and later
\* countries inside it
C18_Witness ==
    /\ LoadedSheet
    /\ loaded[1].rows = <<RowNickel, RowCobaltLower, RowCobalt>>
    /\ [i \in DOMAIN depositsFile.data |->
            <<depositsFile.data[i].mineral, depositsFile.data[i].country>>]
            = <<<<"Nickel", Zambia>>, <<"Cobalt", DRC>>>>
    /\ \E i \in DOMAIN mineralsFile.data : mineralsFile.data[i].country = Morocco

(***************************************************************************)
(* Properties of the distinct-value lists                                  *)
(***************************************************************************)
\* C19: uniqueMinerals() and uniqueCountries() are in strictly ascending
\* lexicographic order (so no value twice) and hold exactly the mineral
\* names and the countries of allRecords(); countCountries() is the length
\* of uniqueCountries().
C19_UniqueListsSortedAndExact ==
    qry.op = "unique" =>
        /\ \A i, j \in DOMAIN qry.mineral_names :
            i < j => Precedes(MineralText(qry.mineral_names[i]), MineralText(qry.mineral_names[j]))
        /\ {qry.mineral_names[i] : i \in DOMAIN qry.mineral_names}
                = {qry.minerals[i].mineral_name : i \in DOMAIN qry.minerals}
        /\ \A i, j \in DOMAIN qry.countries :
            i < j => Precedes(Text(qry.countries[i]), Text(qry.countries[j]))
        /\ {qry.countries[i] : i \in DOMAIN qry.countries} = CountriesOf(qry.minerals)
        /\ qry.count_countries = Len(qry.countries)

\* seven records, six countries and three mineral names, upper case
\* before lower case
C19_Witness ==
    /\ qry.op = "unique"
    /\ Len(qry.minerals) = 7
    /\ qry.countries = <<DRC, <<"Kenya">>, Mali, Morocco, Zambia, <<"drc">>>>
    /\ qry.mineral_names = <<"Cobalt", "Nickel", "cobalt">>
    /\ qry.count_countries = 6

(***************************************************************************)
(* Properties of the credential store over time                            *)
(***************************************************************************)
\* one call leaves every stored account in its place with its fields; a
\* login leaves the store alone, a successful register appends the account
\* it was given and nothing else, a rejected register changes nothing
AccountsKeptByStep ==
    /\ IsPrefix(usersFile.users, usersFile'.users)
    /\ lastCall'.op = "login" => usersFile' = usersFile
    /\ lastCall'.op = "register" /\ lastCall'.result.success =>
            /\ Len(usersFile'.users) = Len(usersFile.users) + 1
            /\ usersFile'.users[Len(usersFile'.users)].username = lastCall'.username
    /\ lastCall'.op = "register" /\ ~lastCall'.result.success => usersFile' = usersFile

\* C20: accounts are never deleted or edited by sequential register and
\* login calls, successful or failed: the pre-seeded accounts stay, every
\* step keeps every stored account with identical fields, login never
\* changes the store and a successful register only appends one account.
C20_AccountsNeverDeletedOrEdited ==
    /\ [](IsPrefix(default_users, usersFile.users))
    /\ [][AccountsKeptByStep]_vars

\* two accounts were registered, and a register with the name of one of
\* them in another case has just been rejected
C20_Witness ==
    /\ Len(usersFile.users) = Len(default_users) + 2
    /\ lastCall.op = "register"
    /\ ~lastCall.result.success
    /\ lastCall.username = Bob
    /\ lastCall.password = "pw1"
    /\ \E i \in DOMAIN usersFile.users :
        usersFile.users[i].username = bob /\ usersFile.users[i].password = hash_password("admin123")

(***************************************************************************)
(* Consistency of the aggregations with each other                         *)
(***************************************************************************)
\* C21: on a non-empty record set the (topProducer, topProducerVolume)
\* pair of summaryStatistics() is the first entry of topProducers(1), also
\* when several countries tie for the highest summed production.
C21_TopProducerIsFirstOfRanking ==
    qry.op = "get_summary_statistics" /\ qry.minerals # <<>>
        => LET first == generate_top_producers(qry.minerals, 1).data IN
           /\ Len(first) = 1
           /\ <<qry.result.top_producer, qry.result.top_producer_volume>> = first[1]
           /\ qry.result.top_producer_volume = ProductionOf(qry.minerals, qry.result.top_producer)
           /\ \A c \in CountriesOf(qry.minerals) :
                ProductionOf(qry.minerals, c) <= qry.result.top_producer_volume

\* two countries tie for the highest summed production
C21_Witness ==
    /\ qry.op = "get_summary_statistics"
    /\ qry.result.top_producer = Zambia
    /\ qry.result.top_producer_volume = 10000
    /\ ProductionOf(qry.minerals, Mali) = 10000
    /\ generate_top_producers(qry.minerals, 1).data = <<<<Zambia, 10000>>>>

RECURSIVE SumTotals(_)
\* the sum of the totals of a list of (country, total) pairs
SumTotals(pairs) == IF pairs = <<>> THEN 0 ELSE Head(pairs)[2] + SumTotals(Tail(pairs))

RECURSIVE SumByMineral(_, _)
\* the totals of productionByCountry(m), summed over the minerals m of a list
SumByMineral(minerals, names) ==
    IF names = <<>> THEN 0
    ELSE SumTotals(generate_production_by_country(minerals, Head(names)).data)
         + SumByMineral(minerals, Tail(names))

\* C22: the totals of topProducers(countCountries()) sum to
\* summaryStatistics().totalProduction, and so do the totals of
\* productionByCountry(m) summed over all m of uniqueMinerals(): no
\* record's productionVolume is dropped or counted twice by the grouping.
C22_TotalsAgree ==
    qry.op = "get_summary_statistics"
        => /\ SumTotals(generate_top_producers(qry.minerals, count_countries(qry.minerals)).data)
                = qry.result.total_production
           /\ SumByMineral(qry.minerals, get_unique_mineral_names(qry.minerals))
                = qry.result.total_production

(***************************************************************************)
(* Properties of the session                                               *)
(***************************************************************************)
HoldsUserId == "user_id" \in DOMAIN session

\* the session holds a user_id exactly when a login succeeded with no
\* logout since, and then the one that login set; the last protected
\* request was served if so and redirected to the login page if not
SessionGuards ==
    /\ HoldsUserId <=> signedIn # <<>>
    /\ HoldsUserId => session.user_id = signedIn[1].id
    /\ resp.route \in DOMAIN ProtectedRoutes =>
            IF signedIn # <<>>
            THEN resp.status = "page" /\ resp.target = ProtectedRoutes[resp.route]
            ELSE resp.status = "redirect" /\ resp.target = "login"

\* a POST to /login that renders the login page again has failed
FailedLoginKeepsSession ==
    resp'.route = "login" /\ resp'.method = "POST" /\ resp'.status = "page"
        => /\ ~lastCall'.result.success
           /\ session' = session

\* C23: in every sequence of login, logout and page requests of one
\* session a protected route is served only if the session holds a
\* user_id set by a successful login with no logout since; after a logout
\* every protected request is redirected to the login page until the next
\* successful login, and a failed login never sets user_id.
C23_ProtectedRoutesNeedLogin ==
    /\ [](SessionGuards)
    /\ [][FailedLoginKeepsSession]_vars

\* after a successful login and a logout a protected page is asked for and
\* the browser is sent to the login page
C23_Witness ==
    /\ lastCall.op = "login"
    /\ lastCall.result.success
    /\ signedIn = <<>>
    /\ ~HoldsUserId
    /\ resp = Redirect("dashboard", "GET", "login")

====
